---- MODULE Spec2Model ----
(***************************************************************************)
(* Model of src/disk/format.rs: the on-disk codec of the data log          *)
(* (DiskEntry, 16-byte Header) and of the hint log (HintEntry, 20-byte     *)
(* HintHeader), with read_from / write_to against a seekable byte stream.  *)
(*                                                                         *)
(* A stream is std::io::Cursor over a Vec<u8>, as in the module's tests:   *)
(* a byte sequence `buf` and a position `pos`.  Bytes are 0..255, headers  *)
(* are the byte arrays the code builds, integers keep their widths.        *)
(***************************************************************************)
EXTENDS Integers, Sequences, FiniteSets, TLC

\* ---------------------------------------------------------------- bounds
\* Longest key and longest value the harness constructs.
MaxLen == 1
\* Largest position the harness seeks to before a write.
MaxSeek == 1
\* Most entries the append-and-scan harness writes.
MaxAppends == 2

\* --------------------------------------------------------- program constants
HEADER_SIZE == 16
HINT_HEADER_SIZE == 20

\* Payload bytes the harness draws keys and values from.
ByteVals == {7, 200}

Min(a, b) == IF a < b THEN a ELSE b

\* Byte strings of length 0..n over ByteVals.
BytesUpTo(n) == UNION {[1..m -> ByteVals] : m \in 0..n}
Payloads == BytesUpTo(MaxLen)

Zeros(n) == [i \in 1..n |-> 0]

\* ------------------------------------------------------------ machine words
\* A u32 is two 16-bit limbs, a u64 or i64 four, least significant first
\* (an i64 in two's complement), so that every width the code uses is kept.
Limb == 256 * 256

\* A length or position (usize, below 2^31 in this model) as a word of w limbs:
\* `x as u32` for w = 2, `x as u64` for w = 4.
RECURSIVE FromInt(_, _)
FromInt(n, w) == IF w = 0 THEN <<>> ELSE <<n % Limb>> \o FromInt(n \div Limb, w - 1)

\* `x as u32` of a 64-bit word: the low 32 bits.
Trunc32(x) == SubSeq(x, 1, 2)

\* `x as usize` / `x as u64` of a u32: zero extension.
Ext64(x) == x \o <<0, 0>>

\* The word is below 2^16, hence comparable with the lengths of this model.
IsSmall(x) == \A i \in 2..Len(x) : x[i] = 0
ToInt(x) == x[1]

\* a + b on words of equal width, wrapping, with carry c.
RECURSIVE AddW(_, _, _)
AddW(a, b, c) ==
  IF Len(a) = 0 THEN <<>>
  ELSE <<(a[1] + b[1] + c) % Limb>> \o AddW(Tail(a), Tail(b), (a[1] + b[1] + c) \div Limb)

\* a - b on words of equal width, wrapping, with borrow c.
RECURSIVE SubW(_, _, _)
SubW(a, b, c) ==
  IF Len(a) = 0 THEN <<>>
  ELSE <<(a[1] - b[1] - c) % Limb>>
         \o SubW(Tail(a), Tail(b), IF a[1] - b[1] - c < 0 THEN 1 ELSE 0)

\* a < b on words of equal width: the subtraction a - b borrows.
RECURSIVE LessW(_, _, _)
LessW(a, b, c) ==
  IF Len(a) = 0 THEN c = 1
  ELSE LessW(Tail(a), Tail(b), IF a[1] - b[1] - c < 0 THEN 1 ELSE 0)

\* u32::to_le_bytes / u64::to_le_bytes: least significant byte first.
to_le_bytes(x) ==
  [i \in 1..(2 * Len(x)) |->
     IF i % 2 = 1 THEN x[(i + 1) \div 2] % 256 ELSE x[i \div 2] \div 256]

\* u32::from_le_bytes / u64::from_le_bytes.
from_le_bytes(bs) ==
  [i \in 1..(Len(bs) \div 2) |-> bs[2 * i - 1] + 256 * bs[2 * i]]

\* Wall-clock readings (chrono's i64 unix seconds): -1 (before 1970),
\* 0x01020304, and 2^32, the first reading that does not fit in 32 bits.
ClockVals == {<<65535, 65535, 65535, 65535>>, <<772, 258, 0, 0>>, <<0, 0, 1, 0>>}

\* ---------------------------------------------------------------- checksum
\* crate::disk::crc::hash(key, value) -> u32: deterministic, sensitive to any
\* byte difference in either input.  Its code is outside src/; modelled as a
\* positional code of key, a separator, and value, reduced to 32 bits.
HashStep(acc, d) ==
  LET lo == acc[1] * 257 + d
  IN  <<lo % Limb, (acc[2] * 257 + lo \div Limb) % Limb>>

RECURSIVE HashFold(_, _)
HashFold(acc, bs) ==
  IF Len(bs) = 0 THEN acc ELSE HashFold(HashStep(acc, Head(bs) + 1), Tail(bs))

hash(key, value) == HashFold(HashStep(HashFold(<<1, 0>>, key), 0), value)

\* ------------------------------------------------------------------ Header
Header_new(crc, timestamp, key_sz, value_sz) ==
  to_le_bytes(crc) \o to_le_bytes(timestamp)
    \o to_le_bytes(key_sz) \o to_le_bytes(value_sz)

Header_crc(h) == from_le_bytes(SubSeq(h, 1, 4))
Header_timestamp(h) == from_le_bytes(SubSeq(h, 5, 8))
Header_key_sz(h) == from_le_bytes(SubSeq(h, 9, 12))
Header_value_sz(h) == from_le_bytes(SubSeq(h, 13, 16))

\* --------------------------------------------------------------- DiskEntry
\* Option<u64>::None for offset and file_id.
None == <<>>

\* chrono's i64 timestamp .try_into::<u32>().unwrap(): Ok exactly when the
\* reading is in 0..=u32::MAX, that is when its upper 32 bits are zero.
TimestampFits(now) == now[3] = 0 /\ now[4] = 0

\* DiskEntry::new, for a clock reading that fits.
DiskEntry_new(key, value, now) ==
  [header |-> Header_new(hash(key, value), Trunc32(now),
                         FromInt(Len(key), 2), FromInt(Len(value), 2)),
   key |-> key, value |-> value, offset |-> None, file_id |-> None]

\* Mutant: the header is left out of the size.
DiskEntry_size_no_header(e) == Len(e.key) + Len(e.value)

\* DiskEntry::size (a u64; below 2^31 for the lengths of this model).
DiskEntry_size(e) == HEADER_SIZE + Len(e.key) + Len(e.value)

\* Mutant: the declared sizes are compared instead of the checksum.
is_validate_sizes_only(e) ==
  /\ Header_key_sz(e.header) = FromInt(Len(e.key), 2)
  /\ Header_value_sz(e.header) = FromInt(Len(e.value), 2)

is_validate(e) == Header_crc(e.header) = hash(e.key, e.value)

\* ------------------------------------------------------------------ stream
\* Cursor<Vec<u8>>::write_all at position pos: a gap past the end is filled
\* with zeros, bytes in place are overwritten, the vector grows as needed.
CursorWrite(b, p, bytes) ==
  LET padded == IF p > Len(b) THEN b \o Zeros(p - Len(b)) ELSE b
      n == Len(bytes)
  IN  [i \in 1..(IF p + n > Len(padded) THEN p + n ELSE Len(padded)) |->
         IF i > p /\ i <= p + n THEN bytes[i - p] ELSE padded[i]]

\* Cursor::read into an n-byte buffer at position p: the bytes obtained.
CursorRead(b, p, n) ==
  IF p >= Len(b) THEN <<>> ELSE SubSeq(b, p + 1, Min(p + n, Len(b)))

\* Read::read_exact of n bytes (a u32 taken as usize) at position p succeeds
\* when that many bytes remain; otherwise it fails with UnexpectedEof.
ReadExactOk(b, p, n) == IsSmall(n) /\ p + ToInt(n) <= Len(b)

\* Mutant: the value is written before the key.
DiskEntry_bytes_value_first(e) == e.header \o e.value \o e.key

\* The bytes write_to hands to the stream: header, key, value.
DiskEntry_bytes(e) == e.header \o e.key \o e.value

\* The entry slot of a result that carries no entry.
NoEntry == [header |-> <<>>, key |-> <<>>, value |-> <<>>,
            offset |-> None, file_id |-> None]

\* Mutant: key and value are fetched with read, which accepts a short read,
\* instead of read_exact.
read_from_short_reads(b, offset) ==
  LET got == CursorRead(b, offset, HEADER_SIZE)
      header == got \o Zeros(HEADER_SIZE - Len(got))
      p1 == offset + Len(got)
      ksz == IF IsSmall(Header_key_sz(header)) THEN ToInt(Header_key_sz(header)) ELSE Limb
      vsz == IF IsSmall(Header_value_sz(header)) THEN ToInt(Header_value_sz(header)) ELSE Limb
      key == CursorRead(b, p1, ksz)
      value == CursorRead(b, p1 + Len(key), vsz)
  IN  IF Len(got) = 0
        THEN [kind |-> "none", entry |-> NoEntry, pos |-> offset]
      ELSE [kind |-> "some",
            entry |-> [header |-> header, key |-> key, value |-> value,
                       offset |-> None, file_id |-> None],
            pos |-> p1 + Len(key) + Len(value)]

\* DiskEntry::read_from(r, offset): [kind, entry, pos].
read_from(b, offset) ==
  LET got == CursorRead(b, offset, HEADER_SIZE)
      header == got \o Zeros(HEADER_SIZE - Len(got))
      p1 == offset + Len(got)
      ksz == Header_key_sz(header)
      vsz == Header_value_sz(header)
  IN  IF Len(got) = 0
        THEN [kind |-> "none", entry |-> NoEntry, pos |-> offset]
      ELSE IF ~ReadExactOk(b, p1, ksz)
        THEN [kind |-> "err", entry |-> NoEntry, pos |-> Len(b)]
      ELSE IF ~ReadExactOk(b, p1 + ToInt(ksz), vsz)
        THEN [kind |-> "err", entry |-> NoEntry, pos |-> Len(b)]
      ELSE [kind |-> "some",
            entry |-> [header |-> header,
                       key |-> SubSeq(b, p1 + 1, p1 + ToInt(ksz)),
                       value |-> SubSeq(b, p1 + ToInt(ksz) + 1,
                                        p1 + ToInt(ksz) + ToInt(vsz)),
                       offset |-> None, file_id |-> None],
            pos |-> p1 + ToInt(ksz) + ToInt(vsz)]


\* DiskEntry::write_to: the stream after header, key and value are written
\* at position p.  The offset returned is p.
write_to(e, b, p) == CursorWrite(b, p, DiskEntry_bytes(e))

\* -------------------------------------------------------------- HintHeader
HintHeader_new(offset, key_sz, value_sz, timestamp) ==
  to_le_bytes(offset) \o to_le_bytes(key_sz)
    \o to_le_bytes(value_sz) \o to_le_bytes(timestamp)

HintHeader_offset(h) == from_le_bytes(SubSeq(h, 1, 8))
HintHeader_key_sz(h) == from_le_bytes(SubSeq(h, 9, 12))
HintHeader_value_sz(h) == from_le_bytes(SubSeq(h, 13, 16))
HintHeader_timestamp(h) == from_le_bytes(SubSeq(h, 17, 20))

\* --------------------------------------------------------------- HintEntry
\* `size as u32 - HEADER_SIZE as u32 - key_sz` leaves the u32 range at the
\* first or at the second subtraction.
HintNewOverflows(key, size) ==
  \/ LessW(Trunc32(size), FromInt(HEADER_SIZE, 2), 0)
  \/ LessW(SubW(Trunc32(size), FromInt(HEADER_SIZE, 2), 0), FromInt(Len(key), 2), 0)

\* HintEntry::new with wrapping u32 subtraction (a build without overflow
\* checks); with overflow checks the subtraction panics when it overflows.
HintEntry_new(key, offset, size, timestamp) ==
  LET key_sz == FromInt(Len(key), 2)
      value_sz == SubW(SubW(Trunc32(size), FromInt(HEADER_SIZE, 2), 0), key_sz, 0)
  IN  [header |-> HintHeader_new(offset, key_sz, value_sz, timestamp),
       key |-> key, file_id |-> None]

HintEntry_offset(h) == HintHeader_offset(h.header)
\* HintEntry::size: usize (64-bit) addition, then `as u64`.
HintEntry_size(h) ==
  AddW(AddW(FromInt(HEADER_SIZE, 4), Ext64(HintHeader_key_sz(h.header)), 0),
       Ext64(HintHeader_value_sz(h.header)), 0)
HintEntry_timestamp(h) == HintHeader_timestamp(h.header)
hint_size(h) == FromInt(HINT_HEADER_SIZE + Len(h.key), 4)
HintEntry_key_sz(h) == HintHeader_key_sz(h.header)
HintEntry_value_sz(h) == HintHeader_value_sz(h.header)

\* impl From<&DiskEntry> for HintEntry, for an entry whose offset is Some.
HintEntry_from(v) ==
  [header |-> HintHeader_new(v.offset, FromInt(Len(v.key), 2),
                             FromInt(Len(v.value), 2), Header_timestamp(v.header)),
   key |-> v.key, file_id |-> v.file_id]

\* Mutant: HEADER_SIZE bytes of the hint header are written instead of
\* HINT_HEADER_SIZE.
HintEntry_bytes_short_header(h) == SubSeq(h.header, 1, HEADER_SIZE) \o h.key

\* The bytes HintEntry::write_to hands to the stream: header, key.
HintEntry_bytes(h) == h.header \o h.key

\* HintEntry::write_to.
hint_write_to(h, b, p) == CursorWrite(b, p, HintEntry_bytes(h))

NoHint == [header |-> <<>>, key |-> <<>>, file_id |-> None]

\* HintEntry::read_from(r, offset): [kind, entry, pos].
hint_read_from(b, offset) ==
  LET got == CursorRead(b, offset, HINT_HEADER_SIZE)
      header == got \o Zeros(HINT_HEADER_SIZE - Len(got))
      p1 == offset + Len(got)
      ksz == HintHeader_key_sz(header)
  IN  IF Len(got) = 0
        THEN [kind |-> "none", entry |-> NoHint, pos |-> offset]
      ELSE IF ~ReadExactOk(b, p1, ksz)
        THEN [kind |-> "err", entry |-> NoHint, pos |-> Len(b)]
      ELSE [kind |-> "some",
            entry |-> [header |-> header,
                       key |-> SubSeq(b, p1 + 1, p1 + ToInt(ksz)),
                       file_id |-> None],
            pos |-> p1 + ToInt(ksz)]

\* =================================================================== state
VARIABLES
  status,   \* "running", or "panicked" once an unwrap or an overflow check fired
  pc,       \* position of the calling code
  clock,    \* the wall-clock reading the last DiskEntry::new took
  entry,    \* the DiskEntry the caller holds
  fresh,    \* no public field of entry was assigned since it was built
  buf, pos, \* the data stream: contents and cursor position
  ret,      \* what the last DiskEntry::write_to returned
  res,      \* what the last DiskEntry::read_from returned
  rdoff,    \* the offset given to the last DiskEntry::read_from
  log,      \* the entries written so far, with the offsets returned
  scanoff,  \* the scanner's next offset
  scanned,  \* the entries the scanner has read
  hargs,    \* the arguments of the last HintEntry::new
  hint,     \* the HintEntry the caller holds
  hbuf, hpos, \* the hint stream
  hret,     \* what the last HintEntry::write_to returned
  hres,     \* what the last HintEntry::read_from returned
  hrdoff    \* the offset given to the last HintEntry::read_from

vars == <<status, pc, clock, entry, fresh, buf, pos, ret, res, rdoff, log,
          scanoff, scanned, hargs, hint, hbuf, hpos, hret, hres, hrdoff>>

dataVars == <<buf, pos, ret, res, rdoff, log, scanoff, scanned>>
hintVars == <<hargs, hint, hbuf, hpos, hret, hres, hrdoff>>

NoResult == [kind |-> "unread", entry |-> NoEntry, pos |-> 0]
NoHintResult == [kind |-> "unread", entry |-> NoHint, pos |-> 0]
\* Result<u64>: Ok(off), or Err.
Ok(off) == [ok |-> TRUE, off |-> off]
Err == [ok |-> FALSE, off |-> 0]

\* Contents a stream may already hold when the caller hands it over.
PriorStreams == {<<>>, <<9, 9>>}

\* Offsets a caller assigns to a placed entry: 0 and 0x0004000300020001.
OffsetVals == {<<0, 0, 0, 0>>, <<1, 2, 3, 4>>}
\* total_entry_size arguments: below, at and above HEADER_SIZE + key.len, and
\* 2^32 + 100.
SizeVals == {<<0, 0, 0, 0>>, <<16, 0, 0, 0>>, <<17, 0, 0, 0>>, <<100, 0, 0, 0>>,
             <<100, 0, 1, 0>>}
TimestampVals == {<<0, 0>>, <<772, 258>>}

Init ==
  /\ status = "running"
  /\ pc = "idle"
  /\ clock = <<>>
  /\ entry = NoEntry
  /\ fresh = FALSE
  /\ buf \in PriorStreams
  /\ pos = 0
  /\ ret = Err
  /\ res = NoResult
  /\ rdoff = 0
  /\ log = <<>>
  /\ scanoff = 0
  /\ scanned = <<>>
  /\ hargs = <<>>
  /\ hint = NoHint
  /\ hbuf = <<>>
  /\ hpos = 0
  /\ hret = Err
  /\ hres = NoHintResult
  /\ hrdoff = 0

\* ================================================================= actions
\* DiskEntry::new(key, value) at wall-clock reading now.
New(key, value, now) ==
  /\ status = "running"
  /\ pc \in {"idle", "written"}
  /\ Len(log) < MaxAppends
  /\ clock' = now
  /\ IF TimestampFits(now)
       THEN /\ entry' = DiskEntry_new(key, value, now)
            /\ fresh' = TRUE
            /\ pc' = "built"
            /\ UNCHANGED status
       ELSE /\ status' = "panicked"
            /\ pc' = "New"
            /\ UNCHANGED <<entry, fresh>>
  /\ UNCHANGED <<dataVars, hintVars>>

\* entry.key = key: assignment to the public field.
SetKey(key) ==
  /\ status = "running"
  /\ pc = "built"
  /\ fresh
  /\ key # entry.key
  /\ entry' = [entry EXCEPT !.key = key]
  /\ fresh' = FALSE
  /\ UNCHANGED <<status, pc, clock, dataVars, hintVars>>

\* entry.value = value: assignment to the public field.
SetValue(value) ==
  /\ status = "running"
  /\ pc = "built"
  /\ fresh
  /\ value # entry.value
  /\ entry' = [entry EXCEPT !.value = value]
  /\ fresh' = FALSE
  /\ UNCHANGED <<status, pc, clock, dataVars, hintVars>>

\* DiskEntry::offset(offset): the builder that places the entry.
SetOffset(offset) ==
  /\ status = "running"
  /\ pc = "built"
  /\ entry.offset # offset
  /\ entry' = [entry EXCEPT !.offset = offset]
  /\ UNCHANGED <<status, pc, clock, fresh, dataVars, hintVars>>

\* The caller positions the data stream before the write.
Seek(p) ==
  /\ status = "running"
  /\ pc = "built"
  /\ p # pos
  /\ pos' = p
  /\ UNCHANGED <<status, pc, clock, entry, fresh, buf, ret, res, rdoff, log,
                 scanoff, scanned, hintVars>>

\* entry.write_to(stream), every write_all succeeding.
WriteTo ==
  /\ status = "running"
  /\ pc = "built"
  /\ buf' = write_to(entry, buf, pos)
  /\ pos' = pos + Len(DiskEntry_bytes(entry))
  /\ ret' = Ok(pos)
  /\ log' = Append(log, [e |-> entry, off |-> pos])
  /\ pc' = "written"
  /\ UNCHANGED <<status, clock, entry, fresh, res, rdoff, scanoff, scanned, hintVars>>

\* entry.write_to(stream), a write_all failing after n bytes of the record
\* reached the stream: the error is returned, the bytes stay.
WriteToFails(n) ==
  /\ status = "running"
  /\ pc = "built"
  /\ n < Len(DiskEntry_bytes(entry))
  /\ buf' = CursorWrite(buf, pos, SubSeq(DiskEntry_bytes(entry), 1, n))
  /\ pos' = pos + n
  /\ ret' = Err
  /\ pc' = "torn"
  /\ UNCHANGED <<status, clock, entry, fresh, res, rdoff, log, scanoff, scanned,
                 hintVars>>

\* DiskEntry::read_from(stream, offset).
ReadFrom(offset) ==
  /\ status = "running"
  /\ pc \in {"written", "torn"}
  /\ res' = read_from(buf, offset)
  /\ pos' = read_from(buf, offset).pos
  /\ rdoff' = offset
  /\ pc' = "read"
  /\ UNCHANGED <<status, clock, entry, fresh, buf, ret, log, scanoff, scanned,
                 hintVars>>

\* One step of a scan of the data stream: read_from at the scanner's offset,
\* then advance by the size() of the entry read.
ScanStep ==
  /\ status = "running"
  /\ pc \in {"idle", "written", "scan"}
  /\ res' = read_from(buf, scanoff)
  /\ pos' = read_from(buf, scanoff).pos
  /\ rdoff' = scanoff
  /\ IF read_from(buf, scanoff).kind = "some"
       THEN /\ scanned' = Append(scanned, read_from(buf, scanoff).entry)
            /\ scanoff' = scanoff + DiskEntry_size(read_from(buf, scanoff).entry)
            /\ pc' = "scan"
       ELSE /\ pc' = IF read_from(buf, scanoff).kind = "none"
                       THEN "scandone" ELSE "scanerr"
            /\ UNCHANGED <<scanned, scanoff>>
  /\ UNCHANGED <<status, clock, entry, fresh, buf, ret, log, hintVars>>

\* HintEntry::new(key, offset, size, timestamp); checks tells whether the build
\* has overflow checks (the subtraction panics) or not (it wraps).
HintNew(key, offset, size, timestamp, checks) ==
  /\ status = "running"
  /\ pc = "idle"
  /\ hargs' = [key |-> key, offset |-> offset, size |-> size, timestamp |-> timestamp]
  /\ IF HintNewOverflows(key, size) /\ checks
       THEN /\ status' = "panicked"
            /\ pc' = "HintNew"
            /\ UNCHANGED hint
       ELSE /\ hint' = HintEntry_new(key, offset, size, timestamp)
            /\ pc' = "hinted"
            /\ UNCHANGED status
  /\ UNCHANGED <<clock, entry, fresh, dataVars, hbuf, hpos, hret, hres, hrdoff>>

\* HintEntry::from(&entry): v.offset.unwrap() panics on None.
HintFrom ==
  /\ status = "running"
  /\ pc = "built"
  /\ IF entry.offset = None
       THEN /\ status' = "panicked"
            /\ pc' = "HintFrom"
            /\ UNCHANGED hint
       ELSE /\ hint' = HintEntry_from(entry)
            /\ pc' = "hinted"
            /\ UNCHANGED status
  /\ UNCHANGED <<clock, entry, fresh, dataVars, hargs, hbuf, hpos, hret, hres, hrdoff>>

\* The caller positions the hint stream before the write.
HintSeek(p) ==
  /\ status = "running"
  /\ pc = "hinted"
  /\ p # hpos
  /\ hpos' = p
  /\ UNCHANGED <<status, pc, clock, entry, fresh, dataVars, hargs, hint, hbuf,
                 hret, hres, hrdoff>>

\* hint.write_to(stream).
HintWriteTo ==
  /\ status = "running"
  /\ pc = "hinted"
  /\ hbuf' = hint_write_to(hint, hbuf, hpos)
  /\ hpos' = hpos + Len(HintEntry_bytes(hint))
  /\ hret' = Ok(hpos)
  /\ pc' = "hwritten"
  /\ UNCHANGED <<status, clock, entry, fresh, dataVars, hargs, hint, hres, hrdoff>>

\* HintEntry::read_from(stream, offset).
HintReadFrom(offset) ==
  /\ status = "running"
  /\ pc = "hwritten"
  /\ hres' = hint_read_from(hbuf, offset)
  /\ hpos' = hint_read_from(hbuf, offset).pos
  /\ hrdoff' = offset
  /\ pc' = "hread"
  /\ UNCHANGED <<status, clock, entry, fresh, dataVars, hargs, hint, hbuf, hret>>

\* ========================================================== specifications
\* The single-entry harness (the shape of the module's tests): build one
\* entry, optionally assign a field, position the stream, write, read back.
Next ==
  \/ \E k \in Payloads, v \in Payloads, now \in ClockVals :
       log = <<>> /\ New(k, v, now)
  \/ \E k \in Payloads : SetKey(k)
  \/ \E v \in Payloads : SetValue(v)
  \/ \E p \in 0..MaxSeek : Seek(p)
  \/ WriteTo
  \/ \E n \in 0..(HEADER_SIZE + 2 * MaxLen) : WriteToFails(n)
  \/ \E o \in 0..(Len(buf) + 1) : ReadFrom(o)

Spec == Init /\ [][Next]_vars

\* The append-and-scan harness: entries built by DiskEntry::new are appended
\* one after another to an initially empty stream, then scanned from offset 0.
EmptyInit == Init /\ buf = <<>>

ScanNext ==
  \/ \E k \in Payloads, v \in Payloads, now \in ClockVals : New(k, v, now)
  \/ WriteTo
  \/ ScanStep

ScanSpec == EmptyInit /\ [][ScanNext]_vars

\* The hint harness: a hint entry is built from its parts or derived from a
\* data entry, written to the hint stream and read back.
HintNext ==
  \/ \E k \in Payloads, v \in Payloads, now \in ClockVals :
       log = <<>> /\ New(k, v, now)
  \/ \E k \in Payloads : SetKey(k)
  \/ \E v \in Payloads : SetValue(v)
  \/ \E o \in OffsetVals : SetOffset(o)
  \/ HintFrom
  \/ \E k \in Payloads, o \in OffsetVals, sz \in SizeVals, ts \in TimestampVals,
        checks \in BOOLEAN : HintNew(k, o, sz, ts, checks)
  \/ \E p \in 0..MaxSeek : HintSeek(p)
  \/ HintWriteTo
  \/ \E o \in 0..(Len(hbuf) + 1) : HintReadFrom(o)

HintSpec == EmptyInit /\ [][HintNext]_vars


\* ================================================================== claims
\* The stream holds, at offset o, a complete 16-byte header.
HeaderCompleteAt(b, o) == o + HEADER_SIZE <= Len(b)

\* The stream holds, at offset o, a complete header followed by at least the
\* key_size + value_size bytes it declares.
RecordCompleteAt(b, o) ==
  /\ HeaderCompleteAt(b, o)
  /\ LET h == SubSeq(b, o + 1, o + HEADER_SIZE)
     IN  /\ IsSmall(Header_key_sz(h))
         /\ IsSmall(Header_value_sz(h))
         /\ o + HEADER_SIZE + ToInt(Header_key_sz(h)) + ToInt(Header_value_sz(h))
              <= Len(b)

\* The entry built by DiskEntry::new was written unmodified and read_from was
\* then called at the offset write_to returned.
ReadBackFresh == pc = "read" /\ ret.ok /\ fresh /\ rdoff = ret.off

\* C1: an entry built by DiskEntry::new, written with write_to at any stream
\* position and read back at the returned offset, comes back as Some(entry)
\* with the same key, value and stored crc.
C1_RoundTrip ==
  ReadBackFresh =>
    /\ res.kind = "some"
    /\ res.entry.key = entry.key
    /\ res.entry.value = entry.value
    /\ Header_crc(res.entry.header) = Header_crc(entry.header)

C1_Witness ==
  /\ ReadBackFresh
  /\ ret.off > 0
  /\ Len(entry.key) > 0
  /\ Len(entry.value) > 0
  /\ entry.key # entry.value
  /\ res.kind = "some"

\* C2: with between 1 and HEADER_SIZE-1 bytes (HINT_HEADER_SIZE-1 for a hint
\* entry) at and after the requested offset, read_from returns an error, never
\* Some(entry) and never None.
C2_ShortHeaderIsError ==
  /\ (pc = "read" /\ Len(buf) - rdoff \in 1..(HEADER_SIZE - 1)) => res.kind = "err"
  /\ (pc = "hread" /\ Len(hbuf) - hrdoff \in 1..(HINT_HEADER_SIZE - 1))
       => hres.kind = "err"

\* C2, the hint half alone.
C2_HintShortHeaderIsError ==
  (pc = "hread" /\ Len(hbuf) - hrdoff \in 1..(HINT_HEADER_SIZE - 1))
    => hres.kind = "err"

\* Sum of size() over the first n logged entries.
RECURSIVE SumSizes(_)
SumSizes(n) == IF n = 0 THEN 0 ELSE SumSizes(n - 1) + DiskEntry_size(log[n].e)

\* C3: appended to an initially empty stream, the i-th entry is written at the
\* sum of the sizes before it, the stream grows by HEADER_SIZE + key.len +
\* value.len per write, and a scan from offset 0 advancing by size() returns
\* the entries in append order and then None at the stream length.
C3_AppendScan ==
  /\ \A i \in 1..Len(log) : log[i].off = SumSizes(i - 1)
  /\ \A i \in 1..Len(log) :
       DiskEntry_size(log[i].e) = HEADER_SIZE + Len(log[i].e.key) + Len(log[i].e.value)
  /\ Len(buf) = SumSizes(Len(log))
  /\ pc # "scanerr"
  /\ Len(scanned) <= Len(log)
  /\ \A i \in 1..Len(scanned) :
       /\ scanned[i].key = log[i].e.key
       /\ scanned[i].value = log[i].e.value
  /\ scanoff = SumSizes(Len(scanned))
  /\ pc = "scandone" =>
       /\ Len(scanned) = Len(log)
       /\ rdoff = Len(buf)
       /\ res.kind = "none"

C3_Witness ==
  /\ pc = "scandone"
  /\ Len(log) >= 2
  /\ Len(scanned) = Len(log)
  /\ log[1].e.key # log[2].e.key
  /\ Len(log[1].e.value) > 0

\* C4: a complete header followed by fewer than key_size + value_size bytes
\* makes read_from return an error, not Some(entry) and not None.
C4_TruncatedBodyIsError ==
  (pc = "read" /\ HeaderCompleteAt(buf, rdoff) /\ ~RecordCompleteAt(buf, rdoff))
    => res.kind = "err"

C4_Witness ==
  /\ pc = "read"
  /\ ~ret.ok
  /\ rdoff > 0
  /\ HeaderCompleteAt(buf, rdoff)
  /\ ~RecordCompleteAt(buf, rdoff)
  /\ SubSeq(buf, rdoff + 1, rdoff + HEADER_SIZE) = entry.header
  /\ res.kind = "err"

\* C5: deriving a HintEntry from a DiskEntry whose offset is unset yields a
\* recoverable error: the process keeps running and no HintEntry is produced.
C5_UnplacedIsRecoverable ==
  (pc \in {"HintFrom", "hinted"} /\ hargs = <<>> /\ entry.offset = None)
    => (status = "running" /\ hint = NoHint)

\* C6: HintEntry::new with total_entry_size < HEADER_SIZE + key.len yields an
\* explicit error (the process keeps running, no entry with a wrapped
\* value_size); otherwise value_size = total_entry_size - HEADER_SIZE - key.len
\* and size() = total_entry_size.
C6_HintNewChecked ==
  (hargs # <<>> /\ pc \in {"HintNew", "hinted"}) =>
    IF LessW(hargs.size, FromInt(HEADER_SIZE + Len(hargs.key), 4), 0)
      THEN status = "running" /\ hint = NoHint
      ELSE /\ status = "running"
           /\ Ext64(HintEntry_value_sz(hint))
                = SubW(hargs.size, FromInt(HEADER_SIZE + Len(hargs.key), 4), 0)
           /\ HintEntry_size(hint) = hargs.size

\* The hint entry was written and read_from called at the returned offset.
HintReadBack == pc = "hread" /\ hret.ok /\ hrdoff = hret.off

\* C7: a HintEntry written with write_to and read back at the returned offset
\* comes back as Some(entry) with the same offset, key, key_sz, value_sz,
\* timestamp and size; HINT_HEADER_SIZE + key.len bytes are written, header
\* then key, and that is hint_size() of both entries.
C7_HintRoundTrip ==
  /\ pc = "hwritten" =>
       /\ hpos - hret.off = HINT_HEADER_SIZE + Len(hint.key)
       /\ Len(hbuf) = hpos
       /\ SubSeq(hbuf, hret.off + 1, hpos) = hint.header \o hint.key
       /\ hint_size(hint) = FromInt(hpos - hret.off, 4)
  /\ HintReadBack =>
       /\ hres.kind = "some"
       /\ HintEntry_offset(hres.entry) = HintEntry_offset(hint)
       /\ hres.entry.key = hint.key
       /\ HintEntry_key_sz(hres.entry) = HintEntry_key_sz(hint)
       /\ HintEntry_value_sz(hres.entry) = HintEntry_value_sz(hint)
       /\ HintEntry_timestamp(hres.entry) = HintEntry_timestamp(hint)
       /\ HintEntry_size(hres.entry) = HintEntry_size(hint)
       /\ hint_size(hres.entry) = hint_size(hint)
       /\ hint_size(hint) = FromInt(HINT_HEADER_SIZE + Len(hint.key), 4)

C7_Witness ==
  /\ HintReadBack
  /\ hargs = <<>>
  /\ hret.off > 0
  /\ Len(hint.key) > 0
  /\ Len(entry.value) > 0
  /\ HintEntry_offset(hint) = <<1, 2, 3, 4>>
  /\ hres.kind = "some"

\* C8: is_validate() is true for an entry as built by DiskEntry::new and after
\* a write/read round trip, false once the key or the value is replaced by a
\* different byte sequence, and a complete stream record is returned as
\* Some(entry) by read_from whether or not its stored crc matches.
C8_Validity ==
  /\ (pc \in {"built", "written", "torn", "read"} /\ fresh) => is_validate(entry)
  /\ ReadBackFresh => (res.kind = "some" /\ is_validate(res.entry))
  /\ (pc \in {"built", "written", "torn", "read"} /\ ~fresh) => ~is_validate(entry)
  /\ (pc = "read" /\ RecordCompleteAt(buf, rdoff)) => res.kind = "some"

C8_Witness ==
  /\ pc = "read"
  /\ ret.ok
  /\ ~fresh
  /\ rdoff = ret.off
  /\ RecordCompleteAt(buf, rdoff)
  /\ res.kind = "some"
  /\ res.entry.value = entry.value
  /\ ~is_validate(res.entry)

\* C9: at every write_to the key_size and value_size in the header bytes
\* written equal the number of key and value bytes written after the header.
C9_SizesMatchAtWrite ==
  pc = "written" =>
    LET h == SubSeq(buf, ret.off + 1, ret.off + HEADER_SIZE)
    IN  /\ Header_key_sz(h) = FromInt(Len(entry.key), 2)
        /\ Header_value_sz(h) = FromInt(Len(entry.value), 2)
        /\ RecordCompleteAt(buf, ret.off)
        /\ pos - ret.off
             = HEADER_SIZE + ToInt(Header_key_sz(h)) + ToInt(Header_value_sz(h))

\* C10: DiskEntry::new has no failure mode: for every clock reading it returns
\* an entry whose timestamp is the reading truncated to 32 bits, whose crc is
\* checksum(key, value), whose sizes are the actual lengths and whose offset
\* and file_id are unset.
C10_NewNeverFails ==
  clock # <<>> =>
    /\ status = "running"
    /\ (pc = "built" /\ fresh) =>
         /\ Header_timestamp(entry.header) = Trunc32(clock)
         /\ Header_crc(entry.header) = hash(entry.key, entry.value)
         /\ Header_key_sz(entry.header) = FromInt(Len(entry.key), 2)
         /\ Header_value_sz(entry.header) = FromInt(Len(entry.value), 2)
         /\ entry.offset = None
         /\ entry.file_id = None

====
